---- MODULE Spec2Model ----
(***************************************************************************)
(* beehive: a pool of workers, each a thread running a mailbox dispatch    *)
(* loop (src/src/worker.cpp), pulling prioritised tasks                    *)
(* (src/include/beehive/task.h) from the pool's shared queue.              *)
(*                                                                         *)
(* worker.cpp and task.h are modelled from the source.  The mailbox        *)
(* (beehive/mq.h), the pool (beehive/pool.h), Task::run and TimeCounter    *)
(* are not among the sources; they are modelled from the specification of  *)
(* the repository and named so in the comments.                            *)
(***************************************************************************)
EXTENDS Integers, Sequences, FiniteSets

(* ------------------------------ bounds --------------------------------- *)
NumWorkers == 2
MaxTasks == 2
MaxSends == 1
MaxSnaps == 2

Workers == 1..NumWorkers
TaskIds == 1..MaxTasks

(* Task::Priority is uint8_t; the submitted tasks draw their priority from *)
(* two of its named values.  The kinds of Message are the strings "NOP",   *)
(* "EXIT", "TASK" and "DUMP".                                              *)
MinPriority == 0
DefaultPriority == 127
MaxPriority == 255
Priorities == {DefaultPriority, MaxPriority}

(* the empty result of mParent->task() *)
NoTask == 0

(* gDumpMutex unlocked *)
NoWorker == 0

(* the lines of one dump record: name, runs, messages, active, idle *)
DumpLines == 5

MaxDumps == 2

VARIABLES
    pc,            \* per worker: position of its thread
    msg,           \* per worker: the message being dispatched, or "NONE"
    result,        \* per worker: the handler's result, or "NONE"
    holding,       \* per worker: the task returned by mParent->task(), or NoTask
    mailbox,       \* per worker: mMsgQueue, messages not yet received
    sent,          \* per worker: every message ever sent to it, in send order
    handled,       \* per worker: the messages its loop has taken, in that order
    queue,         \* the pool's queue of pending tasks, head first
    prio,          \* priorities of the submitted tasks, in submission order
    promise,       \* per task: state of mPromise / mFuture
    outcome,       \* per task: how its callable ended, or "none"
    executed,      \* per task: number of times its callable was invoked
    messages,      \* per worker: mStats.mMessages
    runs,          \* per worker: mStats.mRuns
    idleStarted,   \* per worker: mStats.idle() has an open interval
    activeStarted, \* per worker: mStats.active() has an open interval
    spc,           \* the submitter: "idle", or "signal" inside Pool::submit
    dtor,          \* per worker: progress of ~Worker
    extSends,      \* number of user calls of send/exit/dump so far
    dequeued,      \* history: each pull: the task, the puller, the number submitted then
    rpc,           \* the stats() caller: "idle" or "mid" (inside load())
    rw,            \* the worker whose stats() is being loaded
    rm,            \* the message count load() has read
    snaps,         \* history: the snapshots stats() returned
    dumpMutex,     \* gDumpMutex: the worker that holds it, or NoWorker
    dumpLine,      \* per worker: lines of its current dump record written so far
    out            \* std::cerr: the lines written, each with its writer

vars == <<pc, msg, result, holding, mailbox, sent, handled, queue, prio, promise,
          outcome, executed, messages, runs, idleStarted, activeStarted,
          spc, dtor, extSends, dequeued, rpc, rw, rm, snaps,
          dumpMutex, dumpLine, out>>

workerVars == <<pc, msg, result, holding, messages, runs, idleStarted, activeStarted>>
taskVars == <<promise, outcome, executed>>
poolVars == <<queue, prio, dequeued>>
mailVars == <<mailbox, sent, handled>>
userVars == <<spc, dtor, extSends>>
readerVars == <<rpc, rw, rm, snaps>>
dumpVars == <<dumpMutex, dumpLine, out>>

NumSubmitted == Len(prio)

(* ------------------------------- Init ---------------------------------- *)
(* Worker::Worker has returned for every worker of the pool: the thread is *)
(* spawned but has not entered WorkLoop yet.                               *)
Init ==
    /\ pc = [w \in Workers |-> "start"]
    /\ msg = [w \in Workers |-> "NONE"]
    /\ result = [w \in Workers |-> "NONE"]
    /\ holding = [w \in Workers |-> NoTask]
    /\ mailbox = [w \in Workers |-> <<>>]
    /\ sent = [w \in Workers |-> <<>>]
    /\ handled = [w \in Workers |-> <<>>]
    /\ queue = <<>>
    /\ prio = <<>>
    /\ promise = [t \in TaskIds |-> "unfulfilled"]
    /\ outcome = [t \in TaskIds |-> "none"]
    /\ executed = [t \in TaskIds |-> 0]
    /\ messages = [w \in Workers |-> 0]
    /\ runs = [w \in Workers |-> 0]
    /\ idleStarted = [w \in Workers |-> FALSE]
    /\ activeStarted = [w \in Workers |-> FALSE]
    /\ spc = "idle"
    /\ dtor = [w \in Workers |-> "alive"]
    /\ extSends = 0
    /\ dequeued = <<>>
    /\ rpc = "idle"
    /\ rw = 1
    /\ rm = 0
    /\ snaps = <<>>
    /\ dumpMutex = NoWorker
    /\ dumpLine = [w \in Workers |-> 0]
    /\ out = <<>>

(* ------------------------- mailbox (mq.h) ------------------------------ *)
(* SignalingQueue::send: append to the receiver's queue.                   *)
Mailbox_send(w, k) ==
    /\ mailbox' = [mailbox EXCEPT ![w] = Append(@, k)]
    /\ sent' = [sent EXCEPT ![w] = Append(@, k)]
    /\ UNCHANGED handled

(* A send that puts the message into the mailbox twice. *)
Worker_send_twice(w, k) ==
    /\ mailbox' = [mailbox EXCEPT ![w] = Append(Append(@, k), k)]
    /\ sent' = [sent EXCEPT ![w] = Append(@, k)]
    /\ UNCHANGED handled

(* Worker::send(Message) *)
Worker_send(w, k) == Mailbox_send(w, k)

(* ------------------------- pool (pool.h) ------------------------------- *)
(* A pool that puts a new task ahead of the queued tasks of its own        *)
(* priority (last in, first out among equals).                             *)
Pool_insert_lifo(q, t, p, pr) ==
    LET k == Cardinality({i \in 1..Len(q) : pr[q[i]] > p})
    IN  SubSeq(q, 1, k) \o <<t>> \o SubSeq(q, k + 1, Len(q))

(* Position of a new task of priority p: behind every queued task of       *)
(* priority >= p (descending priority, submission order among equals).     *)
Pool_insert(q, t, p, pr) ==
    LET k == Cardinality({i \in 1..Len(q) : pr[q[i]] >= p})
    IN  SubSeq(q, 1, k) \o <<t>> \o SubSeq(q, k + 1, Len(q))

(* Pool::task(): the highest-priority pending task, or none; Pool_rest is  *)
(* the queue it leaves.                                                    *)
Pool_task(q) == IF q = <<>> THEN NoTask ELSE Head(q)

Pool_rest(q) == IF q = <<>> THEN q ELSE Tail(q)

ShutdownBegun == \E w \in Workers : dtor[w] # "alive"

(* Pool::submit, first half: the task enters the queue. *)
Submit_enqueue(p) ==
    /\ spc = "idle"
    /\ ~ShutdownBegun
    /\ NumSubmitted < MaxTasks
    /\ prio' = Append(prio, p)
    /\ queue' = Pool_insert(queue, NumSubmitted + 1, p, prio')
    /\ spc' = "signal"
    /\ UNCHANGED <<workerVars, taskVars, mailVars, dequeued, dtor, extSends,
                   readerVars, dumpVars>>

(* A task() that sends a NOP. *)
Worker_task_nop(w) == Worker_send(w, "NOP")

(* Worker::task(): send(TASK) *)
Worker_task(w) == Worker_send(w, "TASK")

(* Pool::submit, second half: one worker, any one, is signalled. *)
Submit_signal(w) ==
    /\ spc = "signal"
    /\ Worker_task(w)
    /\ spc' = "idle"
    /\ UNCHANGED <<workerVars, taskVars, poolVars, dtor, extSends,
                   readerVars, dumpVars>>

(* ------------------------ user calls on a worker ----------------------- *)
(* Worker::exit(): send(EXIT), called by a user of the worker. *)
Worker_exit(w) ==
    /\ dtor[w] = "alive"
    /\ extSends < MaxSends
    /\ Worker_send(w, "EXIT")
    /\ extSends' = extSends + 1
    /\ UNCHANGED <<workerVars, taskVars, poolVars, spc, dtor, readerVars, dumpVars>>

(* Worker::dump(): send(DUMP) *)
Worker_dump(w) ==
    /\ dtor[w] = "alive"
    /\ extSends < MaxSends
    /\ Worker_send(w, "DUMP")
    /\ extSends' = extSends + 1
    /\ UNCHANGED <<workerVars, taskVars, poolVars, spc, dtor, readerVars, dumpVars>>

(* Worker::task(): send(TASK), called by a user with no task submitted. *)
Worker_wake(w) ==
    /\ dtor[w] = "alive"
    /\ extSends < MaxSends
    /\ Worker_task(w)
    /\ extSends' = extSends + 1
    /\ UNCHANGED <<workerVars, taskVars, poolVars, spc, dtor, readerVars, dumpVars>>

(* Worker::send(NOP) *)
Worker_nop(w) ==
    /\ dtor[w] = "alive"
    /\ extSends < MaxSends
    /\ Worker_send(w, "NOP")
    /\ extSends' = extSends + 1
    /\ UNCHANGED <<workerVars, taskVars, poolVars, spc, dtor, readerVars, dumpVars>>

(* A destructor that joins without having sent EXIT. *)
Dtor_exit_noExit(w) ==
    /\ dtor[w] = "alive"
    /\ spc = "idle"
    /\ dtor' = [dtor EXCEPT ![w] = "joining"]
    /\ UNCHANGED <<workerVars, taskVars, poolVars, mailVars, spc, extSends, readerVars, dumpVars>>

(* Worker::~Worker, first statement: exit().  Pool shutdown destroys every *)
(* worker; it begins only when no submit is in progress.                   *)
Dtor_exit(w) ==
    /\ dtor[w] = "alive"
    /\ spc = "idle"
    /\ Worker_send(w, "EXIT")
    /\ dtor' = [dtor EXCEPT ![w] = "joining"]
    /\ UNCHANGED <<workerVars, taskVars, poolVars, spc, extSends,
                   readerVars, dumpVars>>

(* Worker::~Worker, second statement: mWorkThread.join() returns once the  *)
(* thread has left WorkLoop.                                               *)
Dtor_join(w) ==
    /\ dtor[w] = "joining"
    /\ pc[w] = "terminated"
    /\ dtor' = [dtor EXCEPT ![w] = "joined"]
    /\ UNCHANGED <<workerVars, taskVars, poolVars, mailVars, spc, extSends, readerVars, dumpVars>>

(* --------------------------- the worker thread ------------------------- *)
(* A WorkLoop that is entered again after the loop returned. *)
WorkLoop_restart(w) ==
    /\ pc[w] \in {"start", "terminated"}
    /\ idleStarted' = [idleStarted EXCEPT ![w] = TRUE]
    /\ pc' = [pc EXCEPT ![w] = "idle"]
    /\ UNCHANGED <<msg, result, holding, messages, runs, activeStarted,
                   taskVars, poolVars, mailVars, userVars, readerVars, dumpVars>>

(* Worker::WorkLoop, first statement; then the thread waits in loop().     *)
WorkLoop(w) ==
    /\ pc[w] = "start"
    /\ idleStarted' = [idleStarted EXCEPT ![w] = TRUE]
    /\ pc' = [pc EXCEPT ![w] = "idle"]
    /\ UNCHANGED <<msg, result, holding, messages, runs, activeStarted,
                   taskVars, poolVars, mailVars, userVars, readerVars, dumpVars>>

(* SignalingQueue::loop: block until a message is there and take it. *)
Loop_receive(w) ==
    /\ pc[w] = "idle"
    /\ mailbox[w] # <<>>
    /\ msg' = [msg EXCEPT ![w] = Head(mailbox[w])]
    /\ mailbox' = [mailbox EXCEPT ![w] = Tail(@)]
    /\ handled' = [handled EXCEPT ![w] = Append(@, Head(mailbox[w]))]
    /\ pc' = [pc EXCEPT ![w] = "before"]
    /\ UNCHANGED <<result, holding, messages, runs, idleStarted, activeStarted,
                   sent, taskVars, poolVars, userVars, readerVars, dumpVars>>

(* A run() that subtracts. *)
AtomicStats_run_sub(r) == r - 1

(* Worker::AtomicStats::message: mMessages.fetch_add(1) *)
AtomicStats_message(m) == m + 1

(* Worker::AtomicStats::run: mRuns.fetch_add(1) *)
AtomicStats_run(r) == r + 1

(* An onBeforeMessage that does not count the message. *)
onBeforeMessage_noCount(w) ==
    /\ pc[w] = "before"
    /\ idleStarted' = [idleStarted EXCEPT ![w] = FALSE]
    /\ activeStarted' = [activeStarted EXCEPT ![w] = TRUE]
    /\ pc' = [pc EXCEPT ![w] = "dispatch"]
    /\ UNCHANGED <<messages, msg, result, holding, runs, taskVars, poolVars, mailVars,
                   userVars, readerVars, dumpVars>>

(* Worker::onBeforeMessage *)
onBeforeMessage(w) ==
    /\ pc[w] = "before"
    /\ idleStarted' = [idleStarted EXCEPT ![w] = FALSE]
    /\ activeStarted' = [activeStarted EXCEPT ![w] = TRUE]
    /\ messages' = [messages EXCEPT ![w] = AtomicStats_message(@)]
    /\ pc' = [pc EXCEPT ![w] = "dispatch"]
    /\ UNCHANGED <<msg, result, holding, runs, taskVars, poolVars, mailVars,
                   userVars, readerVars, dumpVars>>

(* An onAfterMessage that does not start the idle timer. *)
onAfterMessage_noIdleStart(w) ==
    /\ activeStarted' = [activeStarted EXCEPT ![w] = FALSE]
    /\ idleStarted' = idleStarted

(* Worker::onAfterMessage *)
onAfterMessage(w) ==
    /\ activeStarted' = [activeStarted EXCEPT ![w] = FALSE]
    /\ idleStarted' = [idleStarted EXCEPT ![w] = TRUE]

(* SignalingQueue::loop once the handler has returned r: FINISH ends the   *)
(* loop for good, CONTINUE calls onAfterMessage and waits for the next     *)
(* message.                                                                *)
Loop_after(w, r) ==
    /\ result' = [result EXCEPT ![w] = r]
    /\ msg' = [msg EXCEPT ![w] = "NONE"]
    /\ IF r = "FINISH"
       THEN /\ pc' = [pc EXCEPT ![w] = "terminated"]
            /\ UNCHANGED <<idleStarted, activeStarted>>
       ELSE /\ onAfterMessage(w)
            /\ pc' = [pc EXCEPT ![w] = "idle"]

(* An onNop that returns FINISH. *)
onNop_finish(w) ==
    /\ pc[w] = "dispatch"
    /\ msg[w] = "NOP"
    /\ Loop_after(w, "FINISH")
    /\ UNCHANGED <<holding, messages, runs, taskVars, poolVars, mailVars,
                   userVars, readerVars, dumpVars>>

(* Worker::onNop *)
onNop(w) ==
    /\ pc[w] = "dispatch"
    /\ msg[w] = "NOP"
    /\ Loop_after(w, "CONTINUE")
    /\ UNCHANGED <<holding, messages, runs, taskVars, poolVars, mailVars,
                   userVars, readerVars, dumpVars>>

(* An onExit that returns CONTINUE. *)
onExit_continue(w) ==
    /\ pc[w] = "dispatch"
    /\ msg[w] = "EXIT"
    /\ Loop_after(w, "CONTINUE")
    /\ UNCHANGED <<holding, messages, runs, taskVars, poolVars, mailVars,
                   userVars, readerVars, dumpVars>>

(* Worker::onExit *)
onExit(w) ==
    /\ pc[w] = "dispatch"
    /\ msg[w] = "EXIT"
    /\ Loop_after(w, "FINISH")
    /\ UNCHANGED <<holding, messages, runs, taskVars, poolVars, mailVars,
                   userVars, readerVars, dumpVars>>

(* the record a worker writes: its five lines *)
DumpRecord(w) == [i \in 1..DumpLines |-> [worker |-> w, line |-> i]]

(* An onDump that returns FINISH. *)
onDump_finish(w) ==
    /\ pc[w] = "dispatch"
    /\ msg[w] = "DUMP"
    /\ dumpMutex = NoWorker
    /\ out' = out \o DumpRecord(w)
    /\ Loop_after(w, "FINISH")
    /\ UNCHANGED <<holding, messages, runs, taskVars, poolVars, mailVars,
                   userVars, readerVars, dumpMutex, dumpLine>>

(* Worker::onDump, as one step: the snapshot, the lock, the five lines,    *)
(* the unlock and the return.                                              *)
onDump(w) ==
    /\ pc[w] = "dispatch"
    /\ msg[w] = "DUMP"
    /\ dumpMutex = NoWorker
    /\ out' = out \o DumpRecord(w)
    /\ Loop_after(w, "CONTINUE")
    /\ UNCHANGED <<holding, messages, runs, taskVars, poolVars, mailVars,
                   userVars, readerVars, dumpMutex, dumpLine>>

(* An onDump that writes its record without taking gDumpMutex. *)
onDump_lock_noLock(w) ==
    /\ pc[w] = "dispatch"
    /\ msg[w] = "DUMP"
    /\ pc' = [pc EXCEPT ![w] = "dumping"]
    /\ UNCHANGED <<msg, result, holding, messages, runs, idleStarted, activeStarted,
                   taskVars, poolVars, mailVars, userVars, readerVars, dumpVars>>

(* Worker::onDump, `auto s = stats(); std::unique_lock lk(gDumpMutex);`:   *)
(* the worker waits until the mutex is free and takes it.                  *)
onDump_lock(w) ==
    /\ pc[w] = "dispatch"
    /\ msg[w] = "DUMP"
    /\ dumpMutex = NoWorker
    /\ dumpMutex' = w
    /\ pc' = [pc EXCEPT ![w] = "dumping"]
    /\ UNCHANGED <<msg, result, holding, messages, runs, idleStarted, activeStarted,
                   taskVars, poolVars, mailVars, userVars, readerVars, dumpLine, out>>

(* Worker::onDump, one `std::cerr << ... << std::endl;` *)
onDump_line(w) ==
    /\ pc[w] = "dumping"
    /\ dumpLine[w] < DumpLines
    /\ dumpLine' = [dumpLine EXCEPT ![w] = @ + 1]
    /\ out' = Append(out, [worker |-> w, line |-> dumpLine[w] + 1])
    /\ UNCHANGED <<workerVars, taskVars, poolVars, mailVars, userVars, readerVars,
                   dumpMutex>>

(* Worker::onDump, `return CONTINUE`: the lock guard releases gDumpMutex. *)
onDump_unlock(w) ==
    /\ pc[w] = "dumping"
    /\ dumpLine[w] = DumpLines
    /\ dumpMutex' = NoWorker
    /\ dumpLine' = [dumpLine EXCEPT ![w] = 0]
    /\ Loop_after(w, "CONTINUE")
    /\ UNCHANGED <<holding, messages, runs, taskVars, poolVars, mailVars,
                   userVars, readerVars, out>>

(* Worker::dump(): send(DUMP), up to MaxDumps times to each worker. *)
Worker_dump_each(w) ==
    /\ Len(sent[w]) < MaxDumps
    /\ Worker_send(w, "DUMP")
    /\ UNCHANGED <<workerVars, taskVars, poolVars, userVars, readerVars, dumpVars>>

(* An onTask that counts a run before it looks at what it pulled. *)
onTask_pull_countEmpty(w) ==
    /\ pc[w] = "dispatch"
    /\ msg[w] = "TASK"
    /\ LET task == Pool_task(queue)
       IN  /\ queue' = Pool_rest(queue)
           /\ IF task # NoTask
              THEN /\ holding' = [holding EXCEPT ![w] = task]
                   /\ dequeued' = Append(dequeued, [task |-> task, by |-> w, nsub |-> NumSubmitted])
                   /\ pc' = [pc EXCEPT ![w] = "claimed"]
                   /\ UNCHANGED <<msg, result, idleStarted, activeStarted, runs>>
              ELSE /\ Loop_after(w, "CONTINUE")
                   /\ runs' = [runs EXCEPT ![w] = AtomicStats_run(@)]
                   /\ UNCHANGED <<holding, dequeued>>
    /\ UNCHANGED <<messages, prio, taskVars, mailVars, userVars, readerVars, dumpVars>>

(* Worker::onTask, `auto task = mParent->task(); if (task)`: the pull is   *)
(* one atomic removal from the pool's queue; an empty pull returns         *)
(* CONTINUE at once.                                                       *)
onTask_pull(w) ==
    /\ pc[w] = "dispatch"
    /\ msg[w] = "TASK"
    /\ LET task == Pool_task(queue)
       IN  /\ queue' = Pool_rest(queue)
           /\ IF task # NoTask
              THEN /\ holding' = [holding EXCEPT ![w] = task]
                   /\ dequeued' = Append(dequeued, [task |-> task, by |-> w, nsub |-> NumSubmitted])
                   /\ pc' = [pc EXCEPT ![w] = "claimed"]
                   /\ UNCHANGED <<msg, result, idleStarted, activeStarted>>
              ELSE /\ Loop_after(w, "CONTINUE")
                   /\ UNCHANGED <<holding, dequeued>>
    /\ UNCHANGED <<messages, runs, prio, taskVars, mailVars, userVars, readerVars, dumpVars>>

(* An onTask that runs the task without counting the run. *)
onTask_statsRun_skip(w) ==
    /\ pc[w] = "claimed"
    /\ pc' = [pc EXCEPT ![w] = "run"]
    /\ UNCHANGED <<runs, msg, result, holding, messages, idleStarted, activeStarted,
                   taskVars, poolVars, mailVars, userVars, readerVars, dumpVars>>

(* Worker::onTask, `mStats.run();` *)
onTask_statsRun(w) ==
    /\ pc[w] = "claimed"
    /\ runs' = [runs EXCEPT ![w] = AtomicStats_run(@)]
    /\ pc' = [pc EXCEPT ![w] = "run"]
    /\ UNCHANGED <<msg, result, holding, messages, idleStarted, activeStarted,
                   taskVars, poolVars, mailVars, userVars, readerVars, dumpVars>>

(* Task::run, entry: the stored callable is invoked. *)
Task_run_call(w) ==
    /\ pc[w] = "run"
    /\ executed' = [executed EXCEPT ![holding[w]] = @ + 1]
    /\ pc' = [pc EXCEPT ![w] = "callable"]
    /\ UNCHANGED <<msg, result, holding, messages, runs, idleStarted, activeStarted,
                   promise, outcome, poolVars, mailVars, userVars, readerVars, dumpVars>>

(* The callable ends, by returning or by raising a fault. *)
Task_run_callableEnds(w) ==
    /\ pc[w] = "callable"
    /\ \E o \in {"value", "exception"} :
           outcome' = [outcome EXCEPT ![holding[w]] = o]
    /\ pc' = [pc EXCEPT ![w] = "fulfil"]
    /\ UNCHANGED <<msg, result, holding, messages, runs, idleStarted, activeStarted,
                   promise, executed, poolVars, mailVars, userVars, readerVars, dumpVars>>

(* Task::run, exit: the completion signal takes the callable's outcome     *)
(* (set_value or set_exception); run() does not throw.                     *)
Task_run_fulfil(t) == [promise EXCEPT ![t] = outcome[t]]

(* An onTask that calls task->run() a second time before it returns. *)
onTask_return_again(w) ==
    IF executed[holding[w]] < 2
    THEN /\ pc' = [pc EXCEPT ![w] = "run"]
         /\ UNCHANGED <<holding, msg, result, idleStarted, activeStarted>>
    ELSE /\ holding' = [holding EXCEPT ![w] = NoTask]
         /\ Loop_after(w, "CONTINUE")

(* An onTask that ends the worker's loop when the task it ran failed. *)
onTask_return_faultFinish(w) ==
    /\ holding' = [holding EXCEPT ![w] = NoTask]
    /\ Loop_after(w, IF outcome[holding[w]] = "exception" THEN "FINISH" ELSE "CONTINUE")

(* Worker::onTask, after task->run(): `return CONTINUE`; the local task    *)
(* pointer goes out of scope.                                              *)
onTask_return(w) ==
    /\ holding' = [holding EXCEPT ![w] = NoTask]
    /\ Loop_after(w, "CONTINUE")

(* Worker::onTask, `task->run();` returning to onTask, which returns. *)
onTask_ran(w) ==
    /\ pc[w] = "fulfil"
    /\ promise' = Task_run_fulfil(holding[w])
    /\ onTask_return(w)
    /\ UNCHANGED <<messages, runs, outcome, executed, poolVars, mailVars,
                   userVars, readerVars, dumpVars>>

(* ------------------------------ stats() -------------------------------- *)
(* Worker::AtomicStats::load, `s.messages = mMessages.load();` *)
Load_messages(w) ==
    /\ rpc = "idle"
    /\ Len(snaps) < MaxSnaps
    /\ rw' = w
    /\ rm' = messages[w]
    /\ rpc' = "mid"
    /\ UNCHANGED <<workerVars, taskVars, poolVars, mailVars, userVars, snaps, dumpVars>>

(* Worker::AtomicStats::load, `s.runs = mRuns.load();` and the return of   *)
(* the snapshot through Worker::stats.                                     *)
Load_runs ==
    /\ rpc = "mid"
    /\ snaps' = Append(snaps, [worker |-> rw, messages |-> rm, runs |-> runs[rw]])
    /\ rpc' = "idle"
    /\ rm' = 0
    /\ UNCHANGED <<workerVars, taskVars, poolVars, mailVars, userVars, rw, dumpVars>>

(* --------------------------- specifications ---------------------------- *)
WorkerStep(w) ==
    \/ WorkLoop(w)
    \/ Loop_receive(w)
    \/ onBeforeMessage(w)
    \/ onNop(w)
    \/ onExit(w)
    \/ onDump(w)
    \/ onTask_pull(w)
    \/ onTask_statsRun(w)
    \/ Task_run_call(w)
    \/ Task_run_callableEnds(w)
    \/ onTask_ran(w)

UserStep ==
    \/ \E p \in Priorities : Submit_enqueue(p)
    \/ \E w \in Workers : Submit_signal(w)
    \/ \E w \in Workers : Worker_exit(w)
    \/ \E w \in Workers : Worker_dump(w)
    \/ \E w \in Workers : Worker_nop(w)
    \/ \E w \in Workers : Worker_wake(w)
    \/ \E w \in Workers : Dtor_exit(w)
    \/ \E w \in Workers : Dtor_join(w)

Next ==
    \/ \E w \in Workers : WorkerStep(w)
    \/ UserStep

Spec == Init /\ [][Next]_vars

(* The operating system schedules every worker thread and the thread that  *)
(* runs the destructors; a callable that was started ends.                 *)
ShutdownContinues(w) == ShutdownBegun /\ Dtor_exit(w)

Fairness ==
    /\ \A w \in Workers : WF_vars(WorkerStep(w))
    /\ \A w \in Workers : WF_vars(Dtor_join(w))
    /\ \A w \in Workers : WF_vars(ShutdownContinues(w))

FairSpec == Spec /\ Fairness

(* In addition the thread that called submit is scheduled: a submit that   *)
(* has enqueued its task goes on to signal a worker.                       *)
SubmitReturns == \E w \in Workers : Submit_signal(w)

SubmitFairSpec == FairSpec /\ WF_vars(SubmitReturns)

(* The pool before its shutdown, with a thread that calls stats() while    *)
(* the workers run; stats() is called on workers that are not being        *)
(* destroyed.                                                              *)
ReaderStep ==
    \/ \E w \in Workers : Load_messages(w)
    \/ Load_runs

NextStats ==
    \/ \E w \in Workers : WorkerStep(w)
    \/ \E p \in Priorities : Submit_enqueue(p)
    \/ \E w \in Workers : Submit_signal(w)
    \/ \E w \in Workers : Worker_exit(w)
    \/ \E w \in Workers : Worker_dump(w)
    \/ \E w \in Workers : Worker_nop(w)
    \/ \E w \in Workers : Worker_wake(w)
    \/ ReaderStep

StatsSpec == Init /\ [][NextStats]_vars

(* Workers that are sent DUMP messages only, with onDump taken one         *)
(* statement at a time.                                                    *)
NextDump ==
    \/ \E w \in Workers : Worker_dump_each(w)
    \/ \E w \in Workers : WorkLoop(w)
    \/ \E w \in Workers : Loop_receive(w)
    \/ \E w \in Workers : onBeforeMessage(w)
    \/ \E w \in Workers : onDump_lock(w)
    \/ \E w \in Workers : onDump_line(w)
    \/ \E w \in Workers : onDump_unlock(w)

DumpSpec == Init /\ [][NextDump]_vars

(* ------------------------------ helpers -------------------------------- *)
Range(s) == {s[i] : i \in 1..Len(s)}

Submitted == 1..NumSubmitted

(* a is dequeued ahead of b by the priority-major, submission-minor rule *)
Ahead(a, b) == prio[a] > prio[b] \/ (prio[a] = prio[b] /\ a < b)

ExitSent(w) == "EXIT" \in Range(sent[w])

(* position of the first EXIT among the messages sent to w, 0 if none *)
ExitPos(w) ==
    IF ExitSent(w)
    THEN CHOOSE i \in 1..Len(sent[w]) :
             sent[w][i] = "EXIT" /\ \A j \in 1..(i - 1) : sent[w][j] # "EXIT"
    ELSE 0

(* number of messages w's loop has taken from its mailbox *)
Dispatched(w) == Len(sent[w]) - Len(mailbox[w])

(* no TASK message was sent to a worker behind an EXIT *)
NoTaskBehindExit ==
    \A w \in Workers : \A i, j \in 1..Len(sent[w]) :
        (i < j /\ sent[w][i] = "EXIT") => sent[w][j] # "TASK"

AllTerminated == \A w \in Workers : pc[w] = "terminated"

AllJoined == \A w \in Workers : dtor[w] = "joined"

RECURSIVE SumRuns(_)
SumRuns(S) == IF S = {} THEN 0
              ELSE LET w == CHOOSE x \in S : TRUE IN runs[w] + SumRuns(S \ {w})

(* number of tasks w has pulled from the queue *)
Pulled(w) == Cardinality({i \in 1..Len(dequeued) : dequeued[i].by = w})

(* ------------------------------- claims -------------------------------- *)

(* C1: every task is removed from the pool's queue by at most one worker   *)
(* and its callable is invoked at most once: no task is pulled twice, no   *)
(* two workers hold the same task, and a task that was pulled is no longer *)
(* in the queue.                                                           *)
C1_ExactlyOnceDequeue ==
    /\ \A t \in TaskIds : executed[t] <= 1
    /\ \A i, j \in 1..Len(dequeued) : dequeued[i].task = dequeued[j].task => i = j
    /\ \A v, w \in Workers : (holding[v] # NoTask /\ holding[v] = holding[w]) => v = w
    /\ \A i \in 1..Len(dequeued) : dequeued[i].task \notin Range(queue)
    /\ \A i, j \in 1..Len(queue) : queue[i] = queue[j] => i = j

(* C1 witness: the two workers are inside their callables at the same      *)
(* time, each with a task of its own.                                      *)
C1_Witness ==
    /\ pc[1] = "callable"
    /\ pc[2] = "callable"
    /\ holding[1] # holding[2]

(* C2 as stated: over the whole run the tasks are dequeued in              *)
(* non-increasing priority order, equal priorities in submission order.    *)
C2_DequeueOrderWholeRun ==
    \A i, j \in 1..Len(dequeued) :
        i < j => Ahead(dequeued[i].task, dequeued[j].task)

(* C2 amended: whenever two tasks were both submitted by the time the      *)
(* first of them was dequeued, the one dequeued first has the higher       *)
(* priority, or the same priority and the earlier submission; each pull    *)
(* takes the head of the queue, which is ordered that way.                 *)
C2_DequeueOrderAmongPending ==
    /\ \A i, j \in 1..Len(dequeued) :
           (i < j /\ dequeued[j].task <= dequeued[i].nsub)
               => Ahead(dequeued[i].task, dequeued[j].task)
    /\ \A i, j \in 1..Len(queue) : i < j => Ahead(queue[i], queue[j])
    /\ \A i \in 1..Len(dequeued) : \A t \in Range(queue) :
           t <= dequeued[i].nsub => Ahead(dequeued[i].task, t)

(* C2 witness: two tasks of equal priority were pending together and were  *)
(* pulled by different workers, the first submitted first.                 *)
C2_Witness ==
    /\ Len(dequeued) = 2
    /\ dequeued[1].nsub = 2
    /\ prio[1] = prio[2]
    /\ dequeued[1].by # dequeued[2].by

(* C3: a completion signal is fulfilled only with the outcome of its       *)
(* callable, after the callable has been invoked and has ended, and a      *)
(* fulfilled signal never changes again.                                   *)
C3_FulfilledOnce ==
    [][\A t \in TaskIds :
          /\ promise'[t] # "unfulfilled" =>
                 /\ executed'[t] >= 1
                 /\ outcome'[t] # "none"
                 /\ promise'[t] = outcome'[t]
                 /\ \A w \in Workers :
                        holding'[w] = t => pc'[w] \notin {"claimed", "run", "callable"}
          /\ promise[t] # "unfulfilled" => promise'[t] = promise[t]]_vars

(* C3 witness: one signal is fulfilled with a value, the other with a      *)
(* failure.                                                                *)
C3_Witness ==
    /\ promise[1] = "value"
    /\ promise[2] = "exception"

(* C4: when the callable of the task a worker runs has raised a fault, the *)
(* worker's next step stores the fault in that task's completion signal,   *)
(* returns CONTINUE from onTask and leaves the worker waiting for its next *)
(* message; the queue, the other signals, the counters and the mailboxes   *)
(* are untouched.                                                          *)
C4_FaultContained ==
    [][\A w \in Workers :
          (pc[w] = "fulfil" /\ outcome[holding[w]] = "exception" /\ pc'[w] # pc[w]) =>
              /\ promise'[holding[w]] = "exception"
              /\ \A t \in TaskIds : t # holding[w] => promise'[t] = promise[t]
              /\ result'[w] = "CONTINUE"
              /\ pc'[w] = "idle"
              /\ UNCHANGED <<messages, runs, queue, mailbox, outcome, executed>>
              /\ \A v \in Workers : v # w => pc'[v] = pc[v]]_vars

(* C4 witness: worker 1 ran two tasks; the first failed, the second was    *)
(* run afterwards and succeeded.                                           *)
C4_Witness ==
    /\ runs[1] = 2
    /\ promise[dequeued[1].task] = "exception"
    /\ promise[dequeued[2].task] = "value"

(* C5: once EXIT has been sent to a worker, by exit() or by the            *)
(* destructor, the worker eventually is Terminated and a join of its       *)
(* thread, if one is waiting, has returned.                                *)
C5_ExitTerminates ==
    \A w \in Workers : ExitSent(w) ~> (pc[w] = "terminated" /\ dtor[w] # "joining")

(* C5 witness: worker 1 has been joined although a task is still queued    *)
(* and a DUMP was in its mailbox ahead of the EXIT.                        *)
C5_Witness ==
    /\ dtor[1] = "joined"
    /\ queue # <<>>
    /\ sent[1] = <<"DUMP", "EXIT">>

(* C6: a Terminated worker holds no task, every task it claimed has its    *)
(* completion signal fulfilled, an EXIT was sent to it, and its loop has   *)
(* taken exactly the messages up to and including the first EXIT: every    *)
(* message sent ahead of the EXIT was dispatched.                          *)
C6_ExitNotPreemptive ==
    \A w \in Workers :
        pc[w] = "terminated" =>
            /\ holding[w] = NoTask
            /\ ExitPos(w) > 0
            /\ Dispatched(w) = ExitPos(w)
            /\ messages[w] = ExitPos(w)
            /\ \A i \in 1..Len(dequeued) :
                   dequeued[i].by = w =>
                       /\ promise[dequeued[i].task] # "unfulfilled"
                       /\ executed[dequeued[i].task] = 1

(* C6 witness: worker 1 terminated after two TASK messages sent ahead of   *)
(* the EXIT; it ran both tasks.                                            *)
C6_Witness ==
    /\ pc[1] = "terminated"
    /\ sent[1] = <<"TASK", "TASK", "EXIT">>
    /\ runs[1] = 2

(* C7 as stated: when shutdown has joined all workers, every submitted     *)
(* task has been executed exactly once and the run counts sum to the       *)
(* number of tasks submitted.                                              *)
C7_AllRunAtShutdown ==
    AllJoined =>
        /\ \A t \in Submitted : executed[t] = 1 /\ promise[t] # "unfulfilled"
        /\ SumRuns(Workers) = NumSubmitted

(* C7 amended: the same, provided no TASK message was sent to a worker     *)
(* behind an EXIT (no exit() on a worker before a submit that signals it). *)
C7_AllRunAtShutdownNoEarlyExit ==
    (AllJoined /\ NoTaskBehindExit) =>
        /\ \A t \in Submitted : executed[t] = 1 /\ promise[t] # "unfulfilled"
        /\ SumRuns(Workers) = NumSubmitted
        /\ queue = <<>>

(* C7 witness: shutdown has joined both workers, two tasks were submitted  *)
(* and each worker ran one.                                                *)
C7_Witness ==
    /\ AllJoined
    /\ NoTaskBehindExit
    /\ NumSubmitted = 2
    /\ runs[1] = 1
    /\ runs[2] = 1

(* C8: a shutdown that has begun joins every worker, whatever is queued;   *)
(* a task in the queue has never been executed and its completion signal   *)
(* is unfulfilled, and once all workers are Terminated it stays in the     *)
(* queue, unexecuted and unfulfilled.                                      *)
C8_AbandonedTasks ==
    /\ ShutdownBegun ~> AllJoined
    /\ [][\A t \in Range(queue) :
             /\ executed[t] = 0
             /\ promise[t] = "unfulfilled"
             /\ AllTerminated =>
                    /\ t \in Range(queue')
                    /\ executed'[t] = 0
                    /\ promise'[t] = "unfulfilled"]_vars

(* C8 witness: shutdown has joined both workers and a task is still queued. *)
C8_Witness ==
    /\ AllJoined
    /\ queue # <<>>

(* C9: every snapshot stats() has returned satisfies runs <= messages. *)
C9_SnapshotRunsLeMessages ==
    \A i \in 1..Len(snaps) : snaps[i].runs <= snaps[i].messages

(* C10: of two snapshots of the same worker, the first returned before the *)
(* second was begun, the later one has message and run counts at least as  *)
(* large as the earlier one.                                               *)
C10_SnapshotsMonotonic ==
    \A i, j \in 1..Len(snaps) :
        (i < j /\ snaps[i].worker = snaps[j].worker) =>
            /\ snaps[i].messages <= snaps[j].messages
            /\ snaps[i].runs <= snaps[j].runs

(* C10 witness: two snapshots of worker 1, both counters larger in the     *)
(* second.                                                                 *)
C10_Witness ==
    /\ Len(snaps) = 2
    /\ snaps[1].worker = 1
    /\ snaps[2].worker = 1
    /\ snaps[1].messages < snaps[2].messages
    /\ snaps[1].runs < snaps[2].runs

(* C11: the messages a worker's loop has taken, followed by those still in *)
(* its mailbox, are exactly the messages sent to it, in send order: none   *)
(* lost, duplicated or reordered; a step of the loop takes one message,    *)
(* the oldest, and the loop takes none while it dispatches one.            *)
C11_MailboxFifo ==
    [][\A w \in Workers :
          /\ handled'[w] \o mailbox'[w] = sent'[w]
          /\ handled'[w] # handled[w] =>
                 /\ pc[w] = "idle"
                 /\ handled'[w] = Append(handled[w], Head(mailbox[w]))
                 /\ mailbox'[w] = Tail(mailbox[w])
                 /\ msg'[w] = Head(mailbox[w])]_vars

(* C11 witness: worker 1 has dispatched a DUMP sent ahead of a TASK and is *)
(* dispatching the TASK, while worker 2 has not yet taken the one message  *)
(* sent to it.                                                             *)
C11_Witness ==
    /\ handled[1] = <<"DUMP", "TASK">>
    /\ sent[2] = <<"TASK">>
    /\ mailbox[2] = <<"TASK">>
    /\ msg[1] = "TASK"

(* C12: a send(), task(), dump() or exit() called by a user on a worker    *)
(* that has dispatched EXIT is reported and enqueues nothing: outside the  *)
(* worker's own destructor, the mailbox of a Terminated worker never       *)
(* grows.                                                                  *)
C12_UseAfterExitReported ==
    [][\A w \in Workers :
          (pc[w] = "terminated" /\ dtor'[w] = dtor[w])
              => Len(mailbox'[w]) <= Len(mailbox[w])]_vars

(* C13: the lines of a dump record are contiguous in the output: every     *)
(* line but the first of a record directly follows the previous line of    *)
(* the same worker's record, and a worker writes only while it holds the   *)
(* dump lock.                                                              *)
C13_DumpRecordsContiguous ==
    /\ \A i \in 1..Len(out) :
           out[i].line > 1 =>
               /\ i > 1
               /\ out[i - 1].worker = out[i].worker
               /\ out[i - 1].line = out[i].line - 1
    /\ \A w \in Workers : pc[w] = "dumping" => dumpMutex = w

(* C13 witness: worker 1's first record is complete in the output, worker *)
(* 2 is in the middle of writing its record, and worker 1 waits for the    *)
(* lock with its second DUMP.                                              *)
C13_Witness ==
    /\ pc[2] = "dumping"
    /\ dumpLine[2] = 2
    /\ pc[1] = "dispatch"
    /\ msg[1] = "DUMP"
    /\ Len(out) = DumpLines + 2
    /\ out[1].worker = 1

(* C14: a worker's run counter changes only in a TASK dispatch that has    *)
(* claimed a task, and then by one, so it counts the tasks the worker has  *)
(* pulled; the queue shrinks only by the pull of a TASK dispatch; a        *)
(* dispatch that ends without a claim (NOP, DUMP, EXIT, empty pull) has    *)
(* been counted as one message and leaves the run counter and the queue    *)
(* as they were.                                                           *)
C14_RunsOnlyOnClaim ==
    [][\A w \in Workers :
          /\ runs'[w] # runs[w] =>
                 /\ runs'[w] = runs[w] + 1
                 /\ msg[w] = "TASK"
                 /\ holding[w] # NoTask
          /\ runs'[w] = Pulled(w)' - (IF pc'[w] = "claimed" THEN 1 ELSE 0)
          /\ (pc[w] = "dispatch" /\ holding'[w] = NoTask /\ pc'[w] # pc[w]) =>
                 /\ runs'[w] = runs[w]
                 /\ queue' = queue
                 /\ messages'[w] = messages[w]
                 /\ messages[w] = Len(handled[w])
          /\ Len(queue') < Len(queue) =>
                 \E v \in Workers :
                     /\ pc[v] = "dispatch"
                     /\ msg[v] = "TASK"
                     /\ holding'[v] = Head(queue)]_vars

(* C14 witness: worker 1 was sent a TASK with nothing queued: the pull    *)
(* was empty, one message is counted and no run.                           *)
C14_Witness ==
    /\ handled[1] = <<"TASK">>
    /\ pc[1] = "idle"
    /\ messages[1] = 1
    /\ runs[1] = 0
    /\ dequeued = <<>>

(* C15: a worker's message count is the number of messages its loop has    *)
(* taken, less the one for which onBeforeMessage has not run yet; it       *)
(* changes only in onBeforeMessage, by one, before the handler of the      *)
(* message runs, whatever the kind of the message.                         *)
C15_MessagesCountDispatches ==
    [][\A w \in Workers :
          /\ messages'[w] = Len(handled'[w]) - (IF pc'[w] = "before" THEN 1 ELSE 0)
          /\ messages'[w] # messages[w] =>
                 /\ messages'[w] = messages[w] + 1
                 /\ pc[w] = "before"
                 /\ pc'[w] = "dispatch"
                 /\ msg'[w] = handled[w][Len(handled[w])]
                 /\ result'[w] = result[w]]_vars

(* C15 witness: worker 1 is about to run onExit for its second message;    *)
(* both messages are counted already.                                      *)
C15_Witness ==
    /\ pc[1] = "dispatch"
    /\ msg[1] = "EXIT"
    /\ Len(handled[1]) = 2
    /\ messages[1] = 2

(* C16: a worker becomes Terminated only in the step that ends the         *)
(* dispatch of an EXIT, with result FINISH; the dispatch of a NOP, a TASK  *)
(* (claimed or empty pull) or a DUMP ends with CONTINUE and the worker     *)
(* waiting again; a Terminated worker was sent an EXIT.                    *)
C16_TerminatedOnlyByExit ==
    [][\A w \in Workers :
          /\ (pc'[w] = "terminated" /\ pc[w] # "terminated") =>
                 /\ pc[w] = "dispatch"
                 /\ msg[w] = "EXIT"
                 /\ result'[w] = "FINISH"
          /\ (pc[w] \in {"dispatch", "fulfil"} /\ msg[w] # "EXIT"
                  /\ pc'[w] \notin {pc[w], "claimed"}) =>
                 /\ result'[w] = "CONTINUE"
                 /\ pc'[w] = "idle"
          /\ pc'[w] = "terminated" =>
                 /\ "EXIT" \in Range(sent'[w])
                 /\ handled'[w][Len(handled'[w])] = "EXIT"]_vars

(* C16 witness: worker 1 has dispatched a TASK that claimed a task, a NOP  *)
(* and then the EXIT, and only then is Terminated.                         *)
C16_Witness ==
    /\ pc[1] = "terminated"
    /\ handled[1] = <<"TASK", "NOP", "EXIT">>
    /\ runs[1] = 1

(* C17: once a worker is Terminated it stays Terminated: it takes no       *)
(* further message from its mailbox (whatever is queued there, behind the  *)
(* EXIT or sent later), claims no task, and its message and run counts     *)
(* stay as they are; only its own steps change another worker's position   *)
(* and counters, so the others go on dispatching.                          *)
C17_TerminationPermanent ==
    [][\A w \in Workers :
          pc[w] = "terminated" =>
              /\ pc'[w] = "terminated"
              /\ handled'[w] = handled[w]
              /\ Len(mailbox'[w]) >= Len(mailbox[w])
              /\ holding'[w] = holding[w]
              /\ messages'[w] = messages[w]
              /\ runs'[w] = runs[w]
              /\ \A i \in 1..Len(dequeued') : i > Len(dequeued) => dequeued'[i].by # w]_vars

(* C17 witness: worker 1 is Terminated with a TASK message left in its     *)
(* mailbox and no task ever claimed, while worker 2 is running a task.     *)
C17_Witness ==
    /\ pc[1] = "terminated"
    /\ mailbox[1] = <<"TASK">>
    /\ runs[1] = 0
    /\ pc[2] = "run"
    /\ runs[2] = 1

(* TASK messages not yet dispatched: those waiting in a mailbox and those  *)
(* a loop has taken whose handler has not yet pulled from the pool.        *)
TaskMessagesWaiting ==
    {x \in UNION {{<<w, i>> : i \in 1..Len(mailbox[w])} : w \in Workers} :
        mailbox[x[1]][x[2]] = "TASK"}

TaskMessagesTaken ==
    {w \in Workers : pc[w] \in {"before", "dispatch"} /\ msg[w] = "TASK"}

UndispatchedTasks == Cardinality(TaskMessagesWaiting) + Cardinality(TaskMessagesTaken)

NoExitSent == \A w \in Workers : ~ExitSent(w)

(* C18: while no EXIT has been sent and no submit is in progress, the      *)
(* TASK messages not yet dispatched are at least as many as the queued     *)
(* tasks; and every submitted task is eventually run to completion by      *)
(* some worker unless an EXIT is sent, whichever worker was signalled.     *)
C18_NoTaskStranded ==
    /\ []((NoExitSent /\ spc = "idle") => UndispatchedTasks >= Len(queue))
    /\ \A t \in TaskIds :
           (t \in Submitted) ~> (promise[t] # "unfulfilled" \/ ~NoExitSent)

(* C18 witness: the submit of task 1 signalled worker 1, and worker 2,     *)
(* woken by a TASK message of its own, claimed and ran the task; no EXIT   *)
(* was sent.                                                               *)
C18_Witness ==
    /\ NoExitSent
    /\ sent[1] = <<"TASK">>
    /\ sent[2] = <<"TASK">>
    /\ Len(dequeued) = 1
    /\ dequeued[1].task = 1
    /\ dequeued[1].by = 2
    /\ promise[1] # "unfulfilled"
    /\ pc[1] = "idle" /\ handled[1] = <<"TASK">>

(* positions of a worker thread between loop entry and the end of the loop *)
Waiting == {"idle", "before"}

Dispatching == {"dispatch", "claimed", "run", "callable", "fulfil", "dumping"}

(* C19: while a worker waits for a message its idle timer is started and   *)
(* its active timer is not; while it dispatches one its active timer is    *)
(* started and its idle timer is not. Every start() is called on a timer   *)
(* that is not started and every stop() on one that is: WorkLoop starts    *)
(* the idle timer of a fresh worker, onBeforeMessage stops a started idle  *)
(* timer and starts a stopped active timer, onAfterMessage the reverse;    *)
(* the timers change in no other step.                                     *)
C19_TimersAlternate ==
    /\ [](\A w \in Workers :
             /\ pc[w] \in Waiting => (idleStarted[w] /\ ~activeStarted[w])
             /\ pc[w] \in Dispatching => (activeStarted[w] /\ ~idleStarted[w]))
    /\ [][\A w \in Workers :
             /\ (pc[w] = "start" /\ pc'[w] # "start") =>
                    (~idleStarted[w] /\ ~activeStarted[w] /\ idleStarted'[w])
             /\ (pc[w] = "before" /\ pc'[w] # "before") =>
                    (idleStarted[w] /\ ~activeStarted[w])
             /\ (pc[w] \in Dispatching /\ pc'[w] = "idle") =>
                    (activeStarted[w] /\ ~idleStarted[w])
             /\ (idleStarted'[w] # idleStarted[w] \/ activeStarted'[w] # activeStarted[w]) =>
                    \/ pc[w] = "start" /\ pc'[w] = "idle"
                    \/ pc[w] = "before" /\ pc'[w] = "dispatch"
                    \/ pc[w] \in Dispatching /\ pc'[w] = "idle"]_vars

(* C19 witness: worker 1 is dispatching its second message, so its timers  *)
(* have been through a full idle-active-idle-active sequence, while worker *)
(* 2 still waits for its first.                                            *)
C19_Witness ==
    /\ pc[1] = "dispatch"
    /\ Len(handled[1]) = 2
    /\ activeStarted[1] /\ ~idleStarted[1]
    /\ pc[2] = "idle"
    /\ handled[2] = <<>>
    /\ idleStarted[2] /\ ~activeStarted[2]

(* tasks that worker w claimed and has finished running *)
Finished(w) ==
    {i \in 1..Len(dequeued) :
        dequeued[i].by = w /\ promise[dequeued[i].task] # "unfulfilled"}

(* w is inside Task::run of a claimed task, the run already counted *)
Running(w) == pc[w] \in {"run", "callable", "fulfil"}

(* C20: a worker's run count is the number of tasks it has finished        *)
(* running, plus one while it is running a task; the count is incremented  *)
(* before the callable is invoked, so the step that fulfils a task's       *)
(* completion signal is taken by a worker whose count already includes     *)
(* the task, and the fulfilled tasks never outnumber the summed counts.    *)
C20_RunsCountBeforeRun ==
    /\ [](\A w \in Workers :
             runs[w] = Cardinality(Finished(w)) + (IF Running(w) THEN 1 ELSE 0))
    /\ [](Cardinality({t \in TaskIds : promise[t] # "unfulfilled"}) <= SumRuns(Workers))
    /\ [][\A t \in TaskIds :
             (executed'[t] # executed[t] \/ promise'[t] # promise[t]) =>
                 \E w \in Workers :
                     /\ holding[w] = t
                     /\ Running(w)
                     /\ runs'[w] = runs[w]
                     /\ runs[w] = Cardinality(Finished(w)) + 1]_vars

(* C20 witness: worker 1 has finished one task and is running a second,    *)
(* whose callable has been invoked; its count is already two.              *)
C20_Witness ==
    /\ pc[1] = "callable"
    /\ Len(dequeued) = 2
    /\ dequeued[1].by = 1 /\ dequeued[2].by = 1
    /\ promise[dequeued[1].task] # "unfulfilled"
    /\ promise[dequeued[2].task] = "unfulfilled"
    /\ runs[1] = 2

====
